---- MODULE Spec2Model ----
(***************************************************************************)
(* A model of bloggy.py (NotesPublisher): frontmatter parsing, forward     *)
(* link extraction, whitelist aggregation, the listing commands and the    *)
(* two linking operations over a small POSIX-like filesystem.              *)
(*                                                                         *)
(* A string is a sequence of one-character strings; a path is a sequence   *)
(* of names (pathlib's parts after the root), each name a string.          *)
(***************************************************************************)
EXTENDS Integers, Sequences, FiniteSets, TLC

VARIABLES
    content,    \* SpecParse: the text handed to the pure functions
    fm,         \* SpecParse: result of parse_frontmatter, or NotRun
    extracted,  \* SpecParse: result of the extraction, or NotRun
    fs0,        \* the filesystem before the first command
    fs,         \* the filesystem now
    verbose,    \* NotesPublisher.verbose
    cmd,        \* the command of the last invocation ("none" before any)
    out,        \* standard output of the last invocation (sequence of lines)
    err,        \* standard error of the last invocation (sequence of lines)
    ret,        \* what the last invocation's operation computed
    runs        \* the records of the linking runs so far

vars == <<content, fm, extracted, fs0, fs, verbose, cmd, out, err, ret, runs>>

(***************************************************************************)
(* Bounds of the model.                                                    *)
(***************************************************************************)
MaxLines == 4

MaxRuns == 2

MaxFuel == 6

(***************************************************************************)
(* Characters and strings (Python str).                                    *)
(***************************************************************************)
NL == "\n"

UpperCase == <<"A","B","C","D","E","F","G","H","I","J","K","L","M",
               "N","O","P","Q","R","S","T","U","V","W","X","Y","Z">>

LowerCase == <<"a","b","c","d","e","f","g","h","i","j","k","l","m",
               "n","o","p","q","r","s","t","u","v","w","x","y","z">>

Digits == <<"0","1","2","3","4","5","6","7","8","9">>

\* Code point of a character (ord), for the characters the model uses.
Ord(c) ==
    IF \E i \in 1..26 : UpperCase[i] = c
    THEN 64 + (CHOOSE i \in 1..26 : UpperCase[i] = c)
    ELSE IF \E i \in 1..26 : LowerCase[i] = c
    THEN 96 + (CHOOSE i \in 1..26 : LowerCase[i] = c)
    ELSE IF \E i \in 1..10 : Digits[i] = c
    THEN 47 + (CHOOSE i \in 1..10 : Digits[i] = c)
    ELSE CASE c = "\n" -> 10
           [] c = " " -> 32
           [] c = "#" -> 35
           [] c = "(" -> 40
           [] c = ")" -> 41
           [] c = "-" -> 45
           [] c = "." -> 46
           [] c = "/" -> 47
           [] c = ":" -> 58
           [] c = "[" -> 91
           [] c = "]" -> 93
           [] c = "_" -> 95

\* str.lower() on one character.
LowerChar(c) ==
    IF \E i \in 1..26 : UpperCase[i] = c
    THEN LowerCase[CHOOSE i \in 1..26 : UpperCase[i] = c]
    ELSE c

\* str.lower()
Lower(s) == [i \in 1..Len(s) |-> LowerChar(s[i])]

SetMin(S) == CHOOSE x \in S : \A y \in S : x <= y

SetMax(S) == CHOOSE x \in S : \A y \in S : x >= y

\* str.startswith(p)
StartsWith(s, p) == Len(s) >= Len(p) /\ SubSeq(s, 1, Len(p)) = p

\* str.endswith(p)
EndsWith(s, p) == Len(s) >= Len(p) /\ SubSeq(s, Len(s) - Len(p) + 1, Len(s)) = p

\* sub in s
Contains(s, sub) ==
    \E i \in 1..(Len(s) - Len(sub) + 1) : SubSeq(s, i, i + Len(sub) - 1) = sub

\* Whitespace as str.strip() understands it, among the characters used.
IsSpace(c) == c \in {" ", "\n", "\t", "\r"}

\* str.strip()
Strip(s) ==
    LET keep == {i \in 1..Len(s) : ~IsSpace(s[i])}
    IN  IF keep = {} THEN <<>> ELSE SubSeq(s, SetMin(keep), SetMax(keep))

\* The pieces of s between the occurrences of the character sep (a trailing
\* sep is followed by a last, empty piece).
SplitAt(s, sep) ==
    LET brk      == {i \in 1..Len(s) : s[i] = sep}
        n        == Cardinality(brk)
        nth(k)   == CHOOSE i \in brk : Cardinality({j \in brk : j <= i}) = k
        start(k) == IF k = 1 THEN 1 ELSE nth(k - 1) + 1
        stop(k)  == IF k <= n THEN nth(k) - 1 ELSE Len(s)
    IN  [k \in 1..(n + 1) |-> SubSeq(s, start(k), stop(k))]

\* str.splitlines(): a line ends at each line break; a trailing line break
\* opens no further, empty line, and the empty string has no line.
SplitLines(s) ==
    LET pieces == SplitAt(s, NL)
    IN  IF pieces[Len(pieces)] = <<>> THEN SubSeq(pieces, 1, Len(pieces) - 1) ELSE pieces

\* str.replace(old, new): every non-overlapping occurrence, left to right.
RECURSIVE ReplaceFrom(_, _, _, _)
ReplaceFrom(s, i, old, new) ==
    LET occ == {j \in i..(Len(s) - Len(old) + 1) : SubSeq(s, j, j + Len(old) - 1) = old}
    IN  IF occ = {} THEN SubSeq(s, i, Len(s))
        ELSE SubSeq(s, i, SetMin(occ) - 1) \o new
                 \o ReplaceFrom(s, SetMin(occ) + Len(old), old, new)

Replace(s, old, new) == ReplaceFrom(s, 1, old, new)

\* A split at the last colon instead of the first.
SplitLastColon(line) ==
    LET i == SetMax({j \in 1..Len(line) : line[j] = ":"})
    IN  <<SubSeq(line, 1, i - 1), SubSeq(line, i + 1, Len(line))>>

\* str.split(":", 1) on a string that holds a colon: <<key, value>>.
SplitFirstColon(line) ==
    LET i == SetMin({j \in 1..Len(line) : line[j] = ":"})
    IN  <<SubSeq(line, 1, i - 1), SubSeq(line, i + 1, Len(line))>>

\* "\n".join(lines)
RECURSIVE JoinLines(_)
JoinLines(ls) ==
    IF ls = <<>> THEN <<>>
    ELSE IF Len(ls) = 1 THEN ls[1]
    ELSE ls[1] \o <<NL>> \o JoinLines(Tail(ls))

\* Comparison of two str values: by code point at the first difference, a
\* proper prefix first.
StrLess(a, b) ==
    LET m    == IF Len(a) < Len(b) THEN Len(a) ELSE Len(b)
        diff == {i \in 1..m : a[i] # b[i]}
    IN  IF diff = {} THEN Len(a) < Len(b)
        ELSE Ord(a[SetMin(diff)]) < Ord(b[SetMin(diff)])

Range(s) == {s[i] : i \in 1..Len(s)}

\* sorted(list(set)): insertion of each element into a sorted list.
RECURSIVE InsertSorted(_, _)
InsertSorted(x, s) ==
    IF s = <<>> THEN <<x>>
    ELSE IF StrLess(s[1], x) THEN <<s[1]>> \o InsertSorted(x, Tail(s))
    ELSE <<x>> \o s

RECURSIVE SortedOfSet(_)
SortedOfSet(S) ==
    IF S = {} THEN <<>>
    ELSE LET x == CHOOSE y \in S : TRUE
         IN  InsertSorted(x, SortedOfSet(S \ {x}))

(***************************************************************************)
(* String literals of the program.                                         *)
(***************************************************************************)
Dashes == <<"-","-","-">>

AssetsWord == <<"a","s","s","e","t","s">>

AssetsSlash == <<"a","s","s","e","t","s","/">>

KeyPublic == <<"p","u","b","l","i","c">>

KeyTags == <<"t","a","g","s">>

KeyDate == <<"d","a","t","e">>

WordTrue == <<"t","r","u","e">>

WordNow == <<"n","o","w">>

DotMd == <<".","m","d">>

(***************************************************************************)
(* parse_frontmatter                                                       *)
(***************************************************************************)
EmptyMap == [k \in {} |-> <<>>]

MapPut(m, k, v) == [x \in DOMAIN m \cup {k} |-> IF x = k THEN v ELSE m[x]]

MapGet(m, k, default) == IF k \in DOMAIN m THEN m[k] ELSE default

\* for i, line in enumerate(lines[1:], 1): first i with line.strip() == "---"
\* (0-based index into lines; here the 1-based position, 0 for None).
RECURSIVE FindEndIdx(_, _)
FindEndIdx(lines, i) ==
    IF i > Len(lines) THEN 0
    ELSE IF Strip(lines[i]) = Dashes THEN i
    ELSE FindEndIdx(lines, i + 1)

\* for line in lines[1:end_idx]: the key/value pairs, later keys overwrite.
RECURSIVE ParseLines(_, _, _, _)
ParseLines(lines, i, endPos, acc) ==
    IF i >= endPos THEN acc
    ELSE IF \E j \in 1..Len(lines[i]) : lines[i][j] = ":"
    THEN LET kv == SplitFirstColon(lines[i])
         IN  ParseLines(lines, i + 1, endPos, MapPut(acc, Strip(kv[1]), Strip(kv[2])))
    ELSE ParseLines(lines, i + 1, endPos, acc)

ParseFrontmatter(text) ==
    LET Parsed(lines, endPos) ==
            IF endPos = 0 THEN EmptyMap ELSE ParseLines(lines, 2, endPos, EmptyMap)
        OfLines(lines) == Parsed(lines, FindEndIdx(lines, 2))
    IN  IF ~StartsWith(text, Dashes) THEN EmptyMap ELSE OfLines(SplitLines(text))

(***************************************************************************)
(* extract_assets_from_file, on the text read                              *)
(***************************************************************************)
\* re.findall(LINK_REGEX, line): the captured targets, left to right.  A
\* match starts at a "[", its label runs to the first "]", which a "("
\* must follow, and its target runs to the first ")"; the search resumes
\* after a match, and one character on after a failed attempt.
RECURSIVE FindAllLinks(_, _)
FindAllLinks(s, i) ==
    LET lb == {b \in i..Len(s) : s[b] = "["}
        b  == SetMin(lb)
        rb == {j \in (b + 1)..Len(s) : s[j] = "]"}
        j  == SetMin(rb)
        rp == {k \in (j + 2)..Len(s) : s[k] = ")"}
        k  == SetMin(rp)
    IN  IF lb = {} THEN <<>>
        ELSE IF rb = {} THEN FindAllLinks(s, b + 1)
        ELSE IF j + 1 > Len(s) \/ s[j + 1] # "(" THEN FindAllLinks(s, b + 1)
        ELSE IF rp = {} THEN FindAllLinks(s, b + 1)
        ELSE <<SubSeq(s, j + 2, k - 1)>> \o FindAllLinks(s, k + 1)

\* The loop that looks for the second separator line: end_idx (1-based
\* position of that line, 0 when the count never reaches 2).
RECURSIVE SecondSeparator(_, _, _)
SecondSeparator(lines, i, count) ==
    IF i > Len(lines) THEN 0
    ELSE IF Strip(lines[i]) = Dashes
    THEN (IF count + 1 = 2 THEN i ELSE SecondSeparator(lines, i + 1, count + 1))
    ELSE SecondSeparator(lines, i + 1, count)

\* The asset links of the lines from position i on, in order.
RECURSIVE AssetLinksOfLines(_, _)
AssetLinksOfLines(lines, i) ==
    IF i > Len(lines) THEN <<>>
    ELSE SelectSeq(FindAllLinks(lines[i], 1), LAMBDA t : Contains(t, AssetsWord))
             \o AssetLinksOfLines(lines, i + 1)

\* 0-based end_idx e > 0 selects lines[e + 1:], i.e. from position e + 2;
\* with the 1-based position p = e + 1 that is from p + 1.  end_idx = 0
\* (never set, p = 0) selects every line.
ExtractAssetsFromText(text) ==
    LET Body(lines, p) ==
            IF p > 1 THEN AssetLinksOfLines(lines, p + 1) ELSE AssetLinksOfLines(lines, 1)
        OfLines(lines) == Body(lines, SecondSeparator(lines, 1, 0))
    IN  OfLines(SplitLines(text))

(***************************************************************************)
(* The filesystem: a function from real absolute paths (the parts after    *)
(* the root; the root is <<>>) to nodes.  A symlink holds an absolute      *)
(* path.  Resolution is POSIX's: component by component, ".." is the       *)
(* physical parent, a symlink is followed wherever it is not the final     *)
(* component of a no-follow call.                                          *)
(***************************************************************************)
DotDot == <<".", ".">>

Dot == <<".">>

DirNode == [kind |-> "dir", data |-> <<>>, ok |-> TRUE, to |-> <<>>]

FileNode(text, readable) == [kind |-> "file", data |-> text, ok |-> readable, to |-> <<>>]

LinkNode(target) == [kind |-> "link", data |-> <<>>, ok |-> TRUE, to |-> target]

\* PurePath.parent: lexical, the root is its own parent.
LexParent(p) == IF p = <<>> THEN <<>> ELSE SubSeq(p, 1, Len(p) - 1)

\* PurePath.name
PathName(p) == IF p = <<>> THEN <<>> ELSE p[Len(p)]

IsPrefix(p, q) == Len(p) <= Len(q) /\ SubSeq(q, 1, Len(p)) = p

\* The parts of a path string: split at "/", empty and "." parts dropped.
PathParts(s) == SelectSeq(SplitAt(s, "/"), LAMBDA x : x # <<>> /\ x # Dot)

\* base / s for a pathlib path base and a str s: an absolute s replaces base.
JoinPath(base, s) ==
    IF StartsWith(s, <<"/">>) THEN PathParts(s)
    ELSE base \o PathParts(s)

\* The walk of `rest` from the real directory `cur`.  st is "found" (path:
\* the entry's real path), "missing" (every parent resolved, the last
\* component absent; path: where it would be), or ENOENT, ENOTDIR, ELOOP.
RECURSIVE ResolveFrom(_, _, _, _, _)
ResolveFrom(f, cur, rest, follow, fuel) ==
    IF rest = <<>> THEN [st |-> "found", path |-> cur]
    ELSE LET name == Head(rest)
             more == Tail(rest)
             p    == Append(cur, name)
         IN  IF name = DotDot THEN ResolveFrom(f, LexParent(cur), more, follow, fuel)
             ELSE IF p \notin DOMAIN f
             THEN [st |-> IF more = <<>> THEN "missing" ELSE "ENOENT", path |-> p]
             ELSE IF f[p].kind = "dir" THEN ResolveFrom(f, p, more, follow, fuel)
             ELSE IF f[p].kind = "file"
             THEN [st |-> IF more = <<>> THEN "found" ELSE "ENOTDIR", path |-> p]
             ELSE IF more = <<>> /\ ~follow THEN [st |-> "found", path |-> p]
             ELSE IF fuel = 0 THEN [st |-> "ELOOP", path |-> p]
             ELSE ResolveFrom(f, <<>>, f[p].to \o more, follow, fuel - 1)

\* os.stat
Stat(f, p) == ResolveFrom(f, <<>>, p, TRUE, MaxFuel)

\* os.lstat
LStat(f, p) == ResolveFrom(f, <<>>, p, FALSE, MaxFuel)

\* Path.exists()
Exists(f, p) == Stat(f, p).st = "found"

\* Path.is_dir()
IsDir(f, p) ==
    LET Is(r) == r.st = "found" /\ f[r.path].kind = "dir"
    IN  Is(Stat(f, p))

\* Path.is_symlink()
IsSymlink(f, p) ==
    LET Is(r) == r.st = "found" /\ f[r.path].kind = "link"
    IN  Is(LStat(f, p))

\* Path.resolve() of an existing path
RealPath(f, p) == Stat(f, p).path

Without(f, p) == [q \in DOMAIN f \ {p} |-> f[q]]

With(f, p, node) == [q \in DOMAIN f \cup {p} |-> IF q = p THEN node ELSE f[q]]

\* Path.unlink(): removes a file or a symlink, raises on anything else.
Unlink(f, p) ==
    LET At(r) ==
            IF r.st = "found"
            THEN IF f[r.path].kind = "dir"
                 THEN [fs |-> f, status |-> "IsADirectoryError"]
                 ELSE [fs |-> Without(f, r.path), status |-> "ok"]
            ELSE IF r.st = "ENOTDIR" THEN [fs |-> f, status |-> "NotADirectoryError"]
            ELSE [fs |-> f, status |-> "FileNotFoundError"]
    IN  At(LStat(f, p))

\* os.symlink(src, dst)
Symlink(f, src, dst) ==
    LET At(r) ==
            IF r.st = "missing" THEN [fs |-> With(f, r.path, LinkNode(src)), status |-> "ok"]
            ELSE IF r.st = "found" THEN [fs |-> f, status |-> "FileExistsError"]
            ELSE IF r.st = "ENOTDIR" THEN [fs |-> f, status |-> "NotADirectoryError"]
            ELSE [fs |-> f, status |-> "FileNotFoundError"]
    IN  At(LStat(f, dst))

\* os.mkdir(p) and pathlib's handling of its errors in
\* Path.mkdir(parents=True, exist_ok=True): a missing parent is made first
\* and the mkdir repeated; any other error is let through only when the
\* path is not a directory.
RECURSIVE MkdirP(_, _)
MkdirP(f, p) ==
    LET Tolerated(g, st) ==
            [fs |-> g, status |->
                IF IsDir(g, p) THEN "ok"
                ELSE IF st = "ENOTDIR" THEN "NotADirectoryError"
                ELSE "FileExistsError"]
        Again(g, r2) ==
            IF r2.st = "missing" THEN [fs |-> With(g, r2.path, DirNode), status |-> "ok"]
            ELSE IF r2.st = "ENOENT" THEN [fs |-> g, status |-> "FileNotFoundError"]
            ELSE Tolerated(g, r2.st)
        AfterParent(up) == IF up.status # "ok" THEN up ELSE Again(up.fs, LStat(up.fs, p))
        First(r) ==
            IF r.st = "missing" THEN [fs |-> With(f, r.path, DirNode), status |-> "ok"]
            ELSE IF r.st # "ENOENT" THEN Tolerated(f, r.st)
            ELSE IF p = <<>> THEN [fs |-> f, status |-> "FileNotFoundError"]
            ELSE AfterParent(MkdirP(f, LexParent(p)))
    IN  First(LStat(f, p))

\* open(p).read(): the text, or a failure (missing, a directory, a dangling
\* link, no permission, undecodable bytes).
ReadText(f, p) ==
    LET At(r) ==
            IF r.st = "found" /\ f[r.path].kind = "file" /\ f[r.path].ok
            THEN [ok |-> TRUE, text |-> f[r.path].data]
            ELSE [ok |-> FALSE, text |-> <<>>]
    IN  At(Stat(f, p))

\* Path.rglob("*.md") under root: every entry, of any kind, whose name ends
\* in ".md" and that is reached through real directories only.
MdFiles(f, root) ==
    {p \in DOMAIN f :
        /\ Len(p) > Len(root)
        /\ IsPrefix(root, p)
        /\ EndsWith(PathName(p), DotMd)
        /\ \A n \in Len(root)..(Len(p) - 1) :
               SubSeq(p, 1, n) \in DOMAIN f /\ f[SubSeq(p, 1, n)].kind = "dir"}

\* The orders in which a walk may enumerate a set of paths.
Orders(S) == {o \in [1..Cardinality(S) -> S] : \A i, j \in 1..Cardinality(S) : o[i] = o[j] => i = j}

(***************************************************************************)
(* NotesPublisher: the directories, logging, classification, the walk.     *)
(***************************************************************************)
\* self.notes_dir: NOTES_DIR resolved.
NotesDir == << <<"n">> >>

\* self.notes_dir / "assets"
SourceAssetsDir == NotesDir \o <<AssetsWord>>

\* Path("docs/posts/assets"), under the working directory.
AssetsTargetDir == << <<"o">>, <<"t">> >>

\* Path("docs/now"), under the working directory.
NowTargetDir == << <<"o">>, <<"w">> >>

\* self.log(message, force): a line on standard error, or nothing.
Log(msg, arg, force) == IF verbose \/ force THEN <<[msg |-> msg, arg |-> arg]>> ELSE <<>>

\* print(...): a line on standard output.
OutLine(kind, val) == [kind |-> kind, val |-> val]

IsPublicNote(f, p) ==
    LET Of(r) ==
            IF r.ok
            THEN [val |-> Lower(MapGet(ParseFrontmatter(r.text), KeyPublic, <<>>)) = WordTrue,
                  out |-> <<>>]
            ELSE [val |-> FALSE, out |-> <<OutLine("diag", <<"Error reading", p>>)>>]
    IN  Of(ReadText(f, p))

HasNowTag(f, p) ==
    LET Of(r) ==
            IF r.ok
            THEN [val |-> Contains(Lower(MapGet(ParseFrontmatter(r.text), KeyTags, <<>>)),
                                   WordNow),
                  out |-> <<>>]
            ELSE [val |-> FALSE, out |-> <<OutLine("diag", <<"Error reading", p>>)>>]
    IN  Of(ReadText(f, p))

\* The loop of find_public_notes over the walk's order.
RECURSIVE PublicLoop(_, _, _)
PublicLoop(f, order, i) ==
    LET Step(c, rest) ==
            [notes |-> (IF c.val THEN <<order[i]>> ELSE <<>>) \o rest.notes,
             out   |-> c.out \o rest.out]
    IN  IF i > Len(order) THEN [notes |-> <<>>, out |-> <<>>]
        ELSE Step(IsPublicNote(f, order[i]), PublicLoop(f, order, i + 1))

\* The loop of find_now_notes over the walk's order.
RECURSIVE NowLoop(_, _, _)
NowLoop(f, order, i) ==
    LET Step(c, rest) ==
            [notes |-> (IF c.val THEN <<order[i]>> ELSE <<>>) \o rest.notes,
             out   |-> c.out \o rest.out]
    IN  IF i > Len(order) THEN [notes |-> <<>>, out |-> <<>>]
        ELSE Step(HasNowTag(f, order[i]), NowLoop(f, order, i + 1))

FindPublicNotes(f, order) ==
    IF ~Exists(f, NotesDir)
    THEN [notes |-> <<>>, out |-> <<OutLine("diag", <<"Notes directory not found", NotesDir>>)>>]
    ELSE PublicLoop(f, order, 1)

FindNowNotes(f, order) ==
    IF ~Exists(f, NotesDir)
    THEN [notes |-> <<>>, out |-> <<OutLine("diag", <<"Notes directory not found", NotesDir>>)>>]
    ELSE NowLoop(f, order, 1)

\* extract_assets_from_file: a failed read is logged and yields no link.
ExtractAssetsFromFile(f, p) ==
    LET Result(ok, links) ==
            [links |-> links,
             err   |-> Log("Extracting assets from", p, FALSE)
                       \o (IF verbose
                           THEN [i \in 1..Len(links) |->
                                    [msg |-> "Found asset link", arg |-> links[i]]]
                           ELSE <<>>)
                       \o (IF ok THEN <<>> ELSE Log("Error reading", p, TRUE))
                       \o Log("Extracted", <<Len(links)>>, FALSE)]
        Of(r) == Result(r.ok, IF r.ok THEN ExtractAssetsFromText(r.text) ELSE <<>>)
    IN  Of(ReadText(f, p))

\* The loop of collect_public_assets: all_public_assets.update(assets).
\* public_assets = set(assets) in place of public_assets.update(assets).
CollectLoopAssign(f, notes, i) ==
    IF i > Len(notes) THEN [set |-> {}, err |-> <<>>]
    ELSE [set |-> Range(ExtractAssetsFromFile(f, notes[i]).links), err |-> <<>>]

RECURSIVE CollectLoop(_, _, _)
CollectLoop(f, notes, i) ==
    LET Step(e, rest) ==
            [set |-> Range(e.links) \cup rest.set,
             err |-> e.err \o Log("assets of note", <<Len(e.links)>>, TRUE) \o rest.err]
    IN  IF i > Len(notes) THEN [set |-> {}, err |-> <<>>]
        ELSE Step(ExtractAssetsFromFile(f, notes[i]), CollectLoop(f, notes, i + 1))

CollectPublicAssets(f, order) ==
    LET Result(found, loop, uniq) ==
            [assets |-> uniq,
             out    |-> found.out,
             err    |-> Log("Starting collection of public assets", <<>>, FALSE)
                        \o Log("Collecting assets from public notes", <<Len(found.notes)>>, TRUE)
                        \o loop.err
                        \o Log("Total unique public assets found", <<Len(uniq)>>, FALSE)]
        Sorted(found, loop) == Result(found, loop, SortedOfSet(loop.set))
        Collected(found) == Sorted(found, CollectLoop(f, found.notes, 1))
    IN  Collected(FindPublicNotes(f, order))

(***************************************************************************)
(* link_public_assets                                                      *)
(***************************************************************************)
\* asset_path.replace("assets/", "")
StrippedPath(asset) == Replace(asset, AssetsSlash, <<>>)

\* The symlinks below dir, each with the path it holds.
LinksUnder(f, dir) ==
    {<<p, f[p].to>> : p \in {q \in DOMAIN f : IsPrefix(dir, q) /\ f[q].kind = "link"}}

\* if target_path.exists() or target_path.is_symlink(): target_path.unlink()
RemoveExisting(f, target) ==
    IF Exists(f, target) \/ IsSymlink(f, target) THEN Unlink(f, target)
    ELSE [fs |-> f, status |-> "ok"]

\* The loop over the whitelist; an exception ends it where it is raised.
RECURSIVE LinkAssetsLoop(_, _, _, _, _, _)
LinkAssetsLoop(f, assets, i, linked, steps, log) ==
    LET Raised(g, e, steps1, log1) ==
            [fs |-> g, status |-> e, linked |-> linked, steps |-> steps1, err |-> log1]
        Linked(sl, steps1, log1) ==
            IF sl.status # "ok" THEN Raised(sl.fs, sl.status, steps1, log1)
            ELSE LinkAssetsLoop(sl.fs, assets, i + 1, linked + 1, steps1, log1)
        Removed(rm, source, target, steps1, log1) ==
            IF rm.status # "ok" THEN Raised(rm.fs, rm.status, steps1, log1)
            ELSE IF Exists(rm.fs, source)
            THEN Linked(Symlink(rm.fs, RealPath(rm.fs, source), target), steps1, log1)
            ELSE LinkAssetsLoop(rm.fs, assets, i + 1, linked, steps1,
                                log1 \o Log("Warning: Source file not found", source, TRUE))
        ParentMade(mk, source, target, steps1, log1) ==
            IF mk.status # "ok" THEN Raised(mk.fs, mk.status, steps1, log1)
            ELSE Removed(RemoveExisting(mk.fs, target), source, target, steps1, log1)
        Paths(asset, source, target) ==
            ParentMade(MkdirP(f, LexParent(target)), source, target,
                       Append(steps, [asset |-> asset, source |-> source, target |-> target]),
                       log \o Log("Source", source, FALSE) \o Log("Target", target, FALSE))
    IN  IF i > Len(assets)
        THEN [fs |-> f, status |-> "ok", linked |-> linked, steps |-> steps, err |-> log]
        ELSE Paths(assets[i],
                   JoinPath(SourceAssetsDir, StrippedPath(assets[i])),
                   JoinPath(AssetsTargetDir, StrippedPath(assets[i])))

\* The whole of link_public_assets(target_dir = None) on filesystem f, the
\* walk enumerating the notes in `order`.
LinkPublicAssets(f, order) ==
    LET head == Log("Starting public assets linking process", <<>>, FALSE)
                \o Log("Target directory", AssetsTargetDir, FALSE)
        head2 == head \o Log("Target directory created/verified", <<>>, FALSE)
                      \o Log("Source assets directory", SourceAssetsDir, FALSE)
        Done(col, loop) ==
            [op |-> "link-public-assets", status |-> loop.status, early |-> FALSE,
             fs |-> loop.fs, linked |-> loop.linked, total |-> Len(col.assets),
             assets |-> col.assets, steps |-> loop.steps,
             out |-> col.out,
             err |-> head2 \o col.err
                     \o Log("Linking public assets", <<Len(col.assets)>>, TRUE)
                     \o loop.err
                     \o (IF loop.status = "ok"
                         THEN Log("Successfully linked", <<loop.linked, Len(col.assets)>>, TRUE)
                         ELSE <<>>)]
        Collected(g, col) == Done(col, LinkAssetsLoop(g, col.assets, 1, 0, <<>>, <<>>))
        TargetMade(mk) ==
            IF mk.status # "ok"
            THEN [op |-> "link-public-assets", status |-> mk.status, early |-> FALSE,
                  fs |-> mk.fs, linked |-> 0, total |-> 0, assets |-> <<>>, steps |-> <<>>,
                  out |-> <<>>, err |-> head]
            ELSE IF ~Exists(mk.fs, SourceAssetsDir)
            THEN [op |-> "link-public-assets", status |-> "ok", early |-> TRUE,
                  fs |-> mk.fs, linked |-> 0, total |-> 0, assets |-> <<>>, steps |-> <<>>,
                  out |-> <<>>,
                  err |-> head2
                          \o Log("Source assets directory not found", SourceAssetsDir, TRUE)]
            ELSE Collected(mk.fs, CollectPublicAssets(mk.fs, order))
    IN  TargetMade(MkdirP(f, AssetsTargetDir))

(***************************************************************************)
(* link_now_posts                                                          *)
(***************************************************************************)
\* The test "filename already has date format".
HasDateFormat(filename) ==
    /\ StartsWith(filename, <<"2", "0">>) \/ StartsWith(filename, <<"1", "9">>)
    /\ Len(filename) >= 10
    /\ filename[5] = "-"
    /\ filename[8] = "-"

\* target_filename of a post.
TargetFilename(f, post) ==
    LET Dated(date_str, filename) ==
            IF date_str # <<>> THEN date_str \o <<"_">> \o filename ELSE filename
        Of(r, filename) ==
            IF HasDateFormat(filename) THEN filename
            ELSE IF ~r.ok THEN filename
            ELSE Dated(MapGet(ParseFrontmatter(r.text), KeyDate, <<>>), filename)
    IN  Of(ReadText(f, post), PathName(post))

\* The loop over the now posts; an exception ends it where it is raised.
RECURSIVE LinkNowLoop(_, _, _, _, _, _)
LinkNowLoop(f, posts, i, linked, steps, log) ==
    LET Raised(g, e, steps1, log1) ==
            [fs |-> g, status |-> e, linked |-> linked, steps |-> steps1, err |-> log1]
        Linked(sl, tname, steps1, log1) ==
            IF sl.status # "ok" THEN Raised(sl.fs, sl.status, steps1, log1)
            ELSE LinkNowLoop(sl.fs, posts, i + 1, linked + 1, steps1,
                             log1 \o Log("Linked", tname, TRUE))
        Removed(rm, post, tname, target, steps1, log1) ==
            IF rm.status # "ok" THEN Raised(rm.fs, rm.status, steps1, log1)
            ELSE Linked(Symlink(rm.fs, RealPath(rm.fs, post), target), tname, steps1, log1)
        Target(post, tname, target) ==
            Removed(RemoveExisting(f, target), post, tname, target,
                    Append(steps, [post |-> post, name |-> tname, target |-> target]),
                    log \o (IF HasDateFormat(PathName(post))
                            THEN Log("already has date format", PathName(post), FALSE)
                            ELSE IF ~ReadText(f, post).ok
                            THEN Log("Error reading frontmatter", post, TRUE)
                            ELSE <<>>)
                        \o Log("Source", post, FALSE) \o Log("Target", target, FALSE))
        Named(post, tname) == Target(post, tname, JoinPath(NowTargetDir, tname))
    IN  IF i > Len(posts)
        THEN [fs |-> f, status |-> "ok", linked |-> linked, steps |-> steps, err |-> log]
        ELSE Named(posts[i], TargetFilename(f, posts[i]))

\* The whole of link_now_posts(target_dir = None).
LinkNowPosts(f, order) ==
    LET head == Log("Starting #now posts linking process", <<>>, FALSE)
                \o Log("Target directory", NowTargetDir, FALSE)
        Done(found, loop) ==
            [op |-> "link-now-posts", status |-> loop.status, fs |-> loop.fs,
             linked |-> loop.linked, total |-> Len(found.notes),
             posts |-> found.notes, steps |-> loop.steps,
             out |-> found.out,
             err |-> head \o Log("Target directory created/verified", <<>>, FALSE)
                     \o Log("Found #now posts", <<Len(found.notes)>>, TRUE)
                     \o loop.err
                     \o (IF loop.status = "ok"
                         THEN Log("Successfully linked #now posts", <<loop.linked>>, TRUE)
                         ELSE <<>>)]
        Found(g, found) == Done(found, LinkNowLoop(g, found.notes, 1, 0, <<>>, <<>>))
        TargetMade(mk) ==
            IF mk.status # "ok"
            THEN [op |-> "link-now-posts", status |-> mk.status, fs |-> mk.fs,
                  linked |-> 0, total |-> 0, posts |-> <<>>, steps |-> <<>>,
                  out |-> <<>>, err |-> head]
            ELSE Found(mk.fs, FindNowNotes(mk.fs, order))
    IN  TargetMade(MkdirP(f, NowTargetDir))

(***************************************************************************)
(* SpecParse: the pure functions on one text.  The text is a join of at    *)
(* most MaxLines lines drawn from ParseVocab.                              *)
(***************************************************************************)
LnSep == Dashes

LnSepSpaced == <<" ">> \o Dashes \o <<" ">>

LnSepLike == Dashes \o <<"x">>

LnKeyTwoColons == <<"k", ":", " ", "v", ":", "w">>

LnKeyAgain == <<" ", "k", " ", ":", "x">>

LnLink == <<"[", "l", "]", "(">> \o AssetsSlash \o <<"a", ")">>

LnKeyAndLinks ==
    <<"j", ":", "[", "m", "]", "(", "b", "/">> \o AssetsWord
        \o <<")", "[", "n", "]", "(", "h", ")">>

LnPlain == <<"z">>

ParseVocab ==
    {LnSep, LnSepSpaced, LnSepLike, LnKeyTwoColons, LnKeyAgain, LnLink,
     LnKeyAndLinks, LnPlain, <<>>}

SeqsUpTo(S, n) == UNION {[1..k -> S] : k \in 0..n}

NotRun == [done |-> FALSE, val |-> <<>>]

Idle ==
    /\ fs0 = <<>> /\ fs = <<>> /\ verbose = FALSE /\ cmd = "none"
    /\ out = <<>> /\ err = <<>> /\ ret = <<>> /\ runs = <<>>

InitParse ==
    /\ \E ls \in SeqsUpTo(ParseVocab, MaxLines) : content = JoinLines(ls)
    /\ fm = NotRun
    /\ extracted = NotRun
    /\ Idle

DoParseFrontmatter ==
    /\ fm' = [done |-> TRUE, val |-> ParseFrontmatter(content)]
    /\ UNCHANGED <<content, extracted, fs0, fs, verbose, cmd, out, err, ret, runs>>

DoExtractAssets ==
    /\ extracted' = [done |-> TRUE, val |-> ExtractAssetsFromText(content)]
    /\ UNCHANGED <<content, fm, fs0, fs, verbose, cmd, out, err, ret, runs>>

NextParse == DoParseFrontmatter \/ DoExtractAssets

SpecParse == InitParse /\ [][NextParse]_vars

(***************************************************************************)
(* Frontmatter and body as the specification describes them.               *)
(***************************************************************************)
\* The positions, after the first line, of the lines whose trimmed content
\* is "---".
ClosingLines(lines) == {i \in 2..Len(lines) : Strip(lines[i]) = Dashes}

HasFrontmatter(text) ==
    StartsWith(text, Dashes) /\ ClosingLines(SplitLines(text)) # {}

FirstColon(line) == SetMin({j \in 1..Len(line) : line[j] = ":"})

DescribedFrontmatter(text) ==
    LET lines   == SplitLines(text)
        c       == SetMin(ClosingLines(lines))
        inside  == {i \in 2..(c - 1) : \E j \in 1..Len(lines[i]) : lines[i][j] = ":"}
        keyOf(i) == Strip(SubSeq(lines[i], 1, FirstColon(lines[i]) - 1))
        valOf(i) == Strip(SubSeq(lines[i], FirstColon(lines[i]) + 1, Len(lines[i])))
    IN  IF ~HasFrontmatter(text) THEN EmptyMap
        ELSE [k \in {keyOf(i) : i \in inside} |->
                 valOf(SetMax({i \in inside : keyOf(i) = k}))]

DescribedBody(text) ==
    LET lines == SplitLines(text)
    IN  IF ~HasFrontmatter(text) THEN lines
        ELSE SubSeq(lines, SetMin(ClosingLines(lines)) + 1, Len(lines))

\* C3: parse_frontmatter returns the empty mapping for a text that does not
\* start with "---" or has no closing line, and otherwise exactly the
\* mapping of the lines between the first line and the first closing line,
\* split at the first colon, trimmed, a later duplicate key overwriting.
C3_ParseFrontmatter == fm.done => fm.val = DescribedFrontmatter(content)

\* C3 witness: a text with a closed frontmatter holding a two-colon line
\* and a later duplicate of its key has been parsed.
C3_Witness ==
    /\ fm.done
    /\ content = JoinLines(<<LnSep, LnKeyTwoColons, LnKeyAgain, LnSepSpaced>>)
    /\ fm.val = [k \in {<<"k">>} |-> <<"x">>]

\* C2: the extraction returns the asset links of the lines of the body,
\* the body being the whole text when the note has no frontmatter.
C2_ExtractFromBody ==
    extracted.done => extracted.val = AssetLinksOfLines(DescribedBody(content), 1)

(***************************************************************************)
(* The commands of main(): one invocation each, with its own standard      *)
(* output and standard error.                                              *)
(***************************************************************************)
PathLines(f, notes) == [i \in 1..Len(notes) |-> OutLine("line", RealPath(f, notes[i]))]

TextLines(strs) == [i \in 1..Len(strs) |-> OutLine("line", strs[i])]

NoteLogs(notes) == IF verbose THEN [i \in 1..Len(notes) |-> [msg |-> "note", arg |-> notes[i]]]
                   ELSE <<>>

\* publisher.scan_notes()
ScanNotes ==
    /\ \E order \in Orders(MdFiles(fs, NotesDir)) :
          \E found \in {FindPublicNotes(fs, order)} :
              /\ ret' = found.notes
              /\ out' = found.out
              /\ err' = Log("Scanning for public notes in", NotesDir, TRUE)
                        \o Log("Found public notes", <<Len(found.notes)>>, TRUE)
                        \o NoteLogs(found.notes)
    /\ cmd' = "scan"
    /\ UNCHANGED <<content, fm, extracted, fs0, fs, verbose, runs>>

\* publisher.output_public_paths()
OutputPublicPaths ==
    /\ \E order \in Orders(MdFiles(fs, NotesDir)) :
          \E found \in {FindPublicNotes(fs, order)} :
              /\ ret' = found.notes
              /\ out' = found.out \o PathLines(fs, found.notes)
              /\ err' = Log("Finding public notes for path output", <<>>, FALSE)
                        \o Log("Outputting public note paths", <<Len(found.notes)>>, FALSE)
    /\ cmd' = "list-public-posts"
    /\ UNCHANGED <<content, fm, extracted, fs0, fs, verbose, runs>>

\* publisher.output_forward_links(file)
OutputForwardLinks ==
    /\ \E file \in MdFiles(fs, NotesDir) \cup {NotesDir \o << <<"g", ".", "m", "d">> >>} :
          \E e \in {ExtractAssetsFromFile(fs, file)} :
              /\ ret' = e.links
              /\ out' = TextLines(e.links)
              /\ err' = Log("Getting forward links from", file, FALSE)
                        \o e.err
                        \o Log("Outputting forward links", <<Len(e.links)>>, FALSE)
    /\ cmd' = "get-forward-links"
    /\ UNCHANGED <<content, fm, extracted, fs0, fs, verbose, runs>>

\* publisher.output_public_assets()
OutputPublicAssets ==
    /\ \E order \in Orders(MdFiles(fs, NotesDir)) :
          \E col \in {CollectPublicAssets(fs, order)} :
              /\ ret' = col.assets
              /\ out' = col.out \o TextLines(col.assets)
              /\ err' = Log("Starting public assets output", <<>>, FALSE)
                        \o col.err
                        \o Log("Found unique assets in public notes", <<Len(col.assets)>>, TRUE)
    /\ cmd' = "list-public-assets"
    /\ UNCHANGED <<content, fm, extracted, fs0, fs, verbose, runs>>

\* publisher.link_public_assets()
CmdLinkPublicAssets ==
    /\ Len(runs) < MaxRuns
    /\ \E order \in Orders(MdFiles(fs, NotesDir)) :
          \E r \in {LinkPublicAssets(fs, order)} :
              /\ fs' = r.fs
              /\ out' = r.out
              /\ err' = r.err
              /\ ret' = r.steps
              /\ runs' = Append(runs, [op |-> r.op, status |-> r.status, early |-> r.early,
                                       linked |-> r.linked, total |-> r.total,
                                       assets |-> r.assets,
                                       links |-> LinksUnder(r.fs, AssetsTargetDir)])
    /\ cmd' = "link-public-assets"
    /\ UNCHANGED <<content, fm, extracted, fs0, verbose>>

\* publisher.link_now_posts()
CmdLinkNowPosts ==
    /\ Len(runs) < MaxRuns
    /\ \E order \in Orders(MdFiles(fs, NotesDir)) :
          \E r \in {LinkNowPosts(fs, order)} :
              /\ fs' = r.fs
              /\ out' = r.out
              /\ err' = r.err
              /\ ret' = r.steps
              /\ runs' = Append(runs, [op |-> r.op, status |-> r.status,
                                       linked |-> r.linked, total |-> r.total,
                                       posts |-> r.posts,
                                       links |-> LinksUnder(r.fs, NowTargetDir)])
    /\ cmd' = "link-now-posts"
    /\ UNCHANGED <<content, fm, extracted, fs0, verbose>>

(***************************************************************************)
(* Trees.                                                                  *)
(***************************************************************************)
\* A filesystem from a set of <<path, node>> pairs, over the root and the
\* working directory's "o".
Tree(entries) ==
    LET base == {<< <<>>, DirNode >>, << << <<"o">> >>, DirNode >>}
        all  == base \cup entries
    IN  [p \in {e[1] : e \in all} |-> (CHOOSE e \in all : e[1] = p)[2]]

\* [x](target)
Link(target) == <<"[", "x", "]", "(">> \o target \o <<")">>

\* A note: frontmatter lines between two separator lines, then body lines.
Note(front, body) == JoinLines(<<Dashes>> \o front \o <<Dashes>> \o body)

Field(key, value) == key \o <<":", " ">> \o value

NoPureInput == content = <<>> /\ fm = NotRun /\ extracted = NotRun

(***************************************************************************)
(* SpecList: the listing commands over a notes tree of up to three notes   *)
(* (two at the top, one in a subdirectory), each absent, unreadable, or    *)
(* holding one of ListTexts; the notes root may be missing.                *)
(***************************************************************************)
AssetA == AssetsSlash \o <<"a">>

AssetAb == AssetsSlash \o <<"a", "b">>

AssetB == AssetsSlash \o <<"b">>

AssetUpperB == AssetsSlash \o <<"B">>

AssetC == AssetsSlash \o <<"c">>

PublicTrue == Field(KeyPublic, WordTrue)

ListTexts ==
    { Note(<<PublicTrue>>, <<Link(AssetB) \o Link(AssetA), Link(AssetB)>>),
      Note(<<Field(KeyPublic, <<"T", "r", "u", "e">>)>>,
           <<Link(AssetAb) \o Link(<<"h">>) \o Link(AssetUpperB) \o Link(AssetA)>>),
      Note(<<Field(KeyTags, <<"x">>)>>, <<Link(AssetC)>>),
      Note(<<Field(KeyPublic, <<"1">>)>>, <<Link(AssetC)>>) }

NoteSlots ==
    << NotesDir \o << <<"p", ".", "m", "d">> >>,
       NotesDir \o << <<"q", ".", "m", "d">> >>,
       NotesDir \o << <<"s">>, <<"r", ".", "m", "d">> >> >>

\* What a note slot may hold: nothing, an unreadable file, a text.
SlotChoices(texts) ==
    {<<>>} \cup {<<FileNode(<<>>, FALSE)>>} \cup {<<FileNode(t, TRUE)>> : t \in texts}

SlotEntries(choice) ==
    {<<NoteSlots[i], choice[i][1]>> : i \in {j \in 1..Len(NoteSlots) : choice[j] # <<>>}}

NotesSkeleton == {<<NotesDir, DirNode>>, <<NotesDir \o << <<"s">> >>, DirNode>>}

InitList ==
    /\ \/ fs0 = Tree({})
       \/ \E choice \in [1..Len(NoteSlots) -> SlotChoices(ListTexts)] :
             fs0 = Tree(NotesSkeleton \cup SlotEntries(choice))
    /\ fs = fs0
    /\ verbose \in BOOLEAN
    /\ cmd = "none" /\ out = <<>> /\ err = <<>> /\ ret = <<>> /\ runs = <<>>
    /\ NoPureInput

NextList == ScanNotes \/ OutputPublicPaths \/ OutputForwardLinks \/ OutputPublicAssets

SpecList == InitList /\ [][NextList]_vars

\* The notes the walk meets for which is_public_note is true.
PublicNotes(f) ==
    IF Exists(f, NotesDir) THEN {p \in MdFiles(f, NotesDir) : IsPublicNote(f, p).val} ELSE {}

StrictlyIncreasing(strs) == \A i \in 1..(Len(strs) - 1) : StrLess(strs[i], strs[i + 1])

\* C1: whatever the walk's order, collect_public_assets returns a strictly
\* increasing sequence whose elements are exactly the union of the links
\* extracted from the public notes.
C1_SortedUnion ==
    cmd = "list-public-assets" =>
        /\ StrictlyIncreasing(ret)
        /\ Range(ret) = UNION {Range(ExtractAssetsFromFile(fs, p).links) : p \in PublicNotes(fs)}

\* C1 witness: two public notes whose links overlap and repeat were
\* collected into the four distinct assets in code point order.
C1_Witness ==
    /\ cmd = "list-public-assets"
    /\ Cardinality(PublicNotes(fs)) = 2
    /\ ret = <<AssetUpperB, AssetA, AssetAb, AssetB>>

\* C7: standard output of --list-public-posts holds the public notes'
\* absolute paths and nothing else, that of --list-public-assets the sorted
\* whitelist and nothing else.
C7_StdoutOnlyResults ==
    /\ cmd = "list-public-posts" =>
          /\ Len(out) = Cardinality(PublicNotes(fs))
          /\ Range(out) = {OutLine("line", RealPath(fs, p)) : p \in PublicNotes(fs)}
    /\ cmd = "list-public-assets" =>
          out = TextLines(SortedOfSet(
                    UNION {Range(ExtractAssetsFromFile(fs, p).links) : p \in PublicNotes(fs)}))

(***************************************************************************)
(* SpecAssets: link_public_assets, run up to MaxRuns times in a row, over  *)
(* one public note whose body links up to MaxLinks asset paths, a choice   *)
(* of source assets and a choice of what the target directory holds.       *)
(***************************************************************************)
MaxLinks == 2

NameA == <<"a">>

NameD == <<"d">>

PathDirAsset == AssetsSlash \o <<"d">>

PathNested == AssetsSlash \o <<"d", "/", "a">>

PathInner == <<"x", "/">> \o AssetsSlash \o <<"a">>

PathUp == <<".", ".", "/", "n", "/">> \o AssetsSlash \o <<"a">>

PathAbsolute == <<"/", "n", "/">> \o AssetsSlash \o <<"a">>

AssetVocab == {AssetA, PathDirAsset, PathNested, PathInner, PathUp, PathAbsolute, AssetsSlash}

RECURSIVE LinkLines(_)
LinkLines(targets) ==
    IF targets = <<>> THEN <<>> ELSE <<Link(Head(targets))>> \o LinkLines(Tail(targets))

NotePath == NotesDir \o << <<"p", ".", "m", "d">> >>

\* What the notes directory holds beside the note.
SourceChoices ==
    LET assetsDir == {<<SourceAssetsDir, DirNode>>}
        fileA     == {<<SourceAssetsDir \o <<NameA>>, FileNode(<<"1">>, TRUE)>>}
        dirD      == {<<SourceAssetsDir \o <<NameD>>, DirNode>>,
                      <<SourceAssetsDir \o <<NameD, NameA>>, FileNode(<<"2">>, TRUE)>>}
        rootA     == {<<NotesDir \o <<NameA>>, FileNode(<<"3">>, TRUE)>>}
    IN  { {}, assetsDir, assetsDir \cup fileA, assetsDir \cup dirD,
          assetsDir \cup fileA \cup dirD, assetsDir \cup fileA \cup dirD \cup rootA }

\* What is at the target directory before the first run.
AssetsTargetChoices ==
    LET dir == {<<AssetsTargetDir, DirNode>>}
    IN  { {},
          dir,
          dir \cup {<<AssetsTargetDir \o <<NameA>>, FileNode(<<"4">>, TRUE)>>},
          dir \cup {<<AssetsTargetDir \o <<NameA>>, DirNode>>},
          dir \cup {<<AssetsTargetDir \o <<NameA>>, LinkNode(SourceAssetsDir \o <<NameA>>)>>},
          dir \cup {<<AssetsTargetDir \o <<NameD>>, DirNode>>,
                    <<AssetsTargetDir \o <<NameD, NameA>>, FileNode(<<"5">>, TRUE)>>} }

InitAssets ==
    /\ \E body \in SeqsUpTo(AssetVocab, MaxLinks) :
       \E src \in SourceChoices :
       \E tgt \in AssetsTargetChoices :
          fs0 = Tree({<<NotesDir, DirNode>>,
                      <<NotePath, FileNode(Note(<<PublicTrue>>, LinkLines(body)), TRUE)>>}
                     \cup src \cup tgt)
    /\ fs = fs0
    /\ verbose \in BOOLEAN
    /\ cmd = "none" /\ out = <<>> /\ err = <<>> /\ ret = <<>> /\ runs = <<>>
    /\ NoPureInput

NextAssets == CmdLinkPublicAssets

SpecAssets == InitAssets /\ [][NextAssets]_vars

\* p with a leading "assets/" removed, and nothing else.
LeadingStripped(p) ==
    IF StartsWith(p, AssetsSlash) THEN SubSeq(p, Len(AssetsSlash) + 1, Len(p)) ELSE p

\* C4: for every whitelist path the source is sourceAssetsDir/stripped and
\* the link's place targetDir/stripped, stripped being the path less a
\* leading "assets/" only.
C4_LeadingSegmentOnly ==
    cmd = "link-public-assets" =>
        \A i \in 1..Len(ret) :
            /\ ret[i].source = JoinPath(SourceAssetsDir, LeadingStripped(ret[i].asset))
            /\ ret[i].target = JoinPath(AssetsTargetDir, LeadingStripped(ret[i].asset))

\* C5: a run that follows a completed run raises nothing and leaves the
\* symlinks, with what they resolve to, and the linked/total count of the
\* run before it.
C5_Idempotent ==
    \A i \in 2..Len(runs) :
        runs[i - 1].status = "ok" =>
            /\ runs[i].status = "ok"
            /\ runs[i].links = runs[i - 1].links
            /\ runs[i].linked = runs[i - 1].linked
            /\ runs[i].total = runs[i - 1].total

\* The entries that differ between two filesystems.
Changed(f, g) ==
    {p \in DOMAIN f \cup DOMAIN g : p \notin DOMAIN f \/ p \notin DOMAIN g \/ f[p] # g[p]}

\* C8: every run ends without an uncaught error, and the first run's count
\* is the number of whitelist entries whose source exists.
C8_NeverFatal ==
    /\ \A i \in 1..Len(runs) : runs[i].status = "ok"
    /\ Len(runs) >= 1 /\ ~runs[1].early =>
          runs[1].linked =
              Cardinality({a \in Range(runs[1].assets) :
                              Exists(fs0, JoinPath(SourceAssetsDir, LeadingStripped(a)))})

\* C9: the runs change nothing under the notes directory, and everything
\* they change lies under the target directory.
C9_NotesTreeUnchanged ==
    \A p \in Changed(fs0, fs) : ~IsPrefix(NotesDir, p) /\ IsPrefix(AssetsTargetDir, p)

(***************************************************************************)
(* SpecNow: link_now_posts, run up to MaxRuns times in a row, over two     *)
(* note slots in different subdirectories, each absent or holding a file   *)
(* named from NowNames with a text of NowTexts (or unreadable).            *)
(***************************************************************************)
Date1 == <<"2", "0", "2", "4", "-", "0", "3", "-", "0", "1">>

NamePlain == <<"r">> \o DotMd

NameDated == Date1 \o DotMd

NameYear2100 == <<"2", "1", "0", "0", "-", "0", "1", "-", "0", "1">> \o DotMd

NameNoDigits == <<"2", "0", "a", "b", "-", "c", "d", "-", "e", "f">> \o DotMd

NameOneDash == <<"2", "0", "2", "4", "-", "0", "3">> \o DotMd

NameShort == <<"1", "9", "-", "a">> \o DotMd

NowNames == {NamePlain, NameDated, NameYear2100, NameNoDigits, NameOneDash, NameShort}

NowTexts ==
    { Note(<<Field(KeyTags, WordNow), Field(KeyDate, Date1)>>, <<>>),
      Note(<<Field(KeyTags, <<"a", ",", " ", "N", "o", "w">>)>>, <<>>),
      Note(<<Field(KeyTags, <<"u", "n", "k", "n", "o", "w", "n">>), Field(KeyDate, <<>>)>>, <<>>),
      Note(<<Field(KeyTags, <<"l", "a", "t", "e", "r">>), Field(KeyDate, Date1)>>, <<>>) }

NowDirs == <<NotesDir \o << <<"a">> >>, NotesDir \o << <<"b">> >> >>

NowSlotChoices ==
    {<<>>} \cup {<<nm, FileNode(<<>>, FALSE)>> : nm \in NowNames}
           \cup {<<nm, FileNode(t, TRUE)>> : nm \in NowNames, t \in NowTexts}

NowEntries(choice) ==
    {<<Append(NowDirs[i], choice[i][1]), choice[i][2]>> :
        i \in {j \in 1..Len(NowDirs) : choice[j] # <<>>}}

\* What is at the target directory before the first run.
NowTargetChoices ==
    LET dir == {<<NowTargetDir, DirNode>>}
    IN  { {},
          dir,
          dir \cup {<<NowTargetDir \o <<NamePlain>>, FileNode(<<"4">>, TRUE)>>},
          dir \cup {<<NowTargetDir \o <<NameDated>>, DirNode>>} }

InitNow ==
    /\ \E choice \in [1..Len(NowDirs) -> NowSlotChoices] :
       \E tgt \in NowTargetChoices :
          fs0 = Tree({<<NotesDir, DirNode>>, <<NowDirs[1], DirNode>>, <<NowDirs[2], DirNode>>}
                     \cup NowEntries(choice) \cup tgt)
    /\ fs = fs0
    /\ verbose \in BOOLEAN
    /\ cmd = "none" /\ out = <<>> /\ err = <<>> /\ ret = <<>> /\ runs = <<>>
    /\ NoPureInput

NextNow == CmdLinkNowPosts

SpecNow == InitNow /\ [][NextNow]_vars

IsDigit(c) == \E i \in 1..Len(Digits) : Digits[i] = c

\* The frontmatter's date field of a readable note, "" when it has none.
DateField(f, post) == MapGet(DescribedFrontmatter(ReadText(f, post).text), KeyDate, <<>>)

\* The filename rule with a given test for "already dated".
RuleName(f, post, Dated(_)) ==
    IF Dated(PathName(post)) THEN PathName(post)
    ELSE IF DateField(f, post) # <<>> THEN DateField(f, post) \o <<"_">> \o PathName(post)
    ELSE PathName(post)

\* At least 10 characters, four digits first, "-" at positions 4 and 7.
LooksLikeYearMonthDay(name) ==
    /\ Len(name) >= 10
    /\ \A i \in 1..4 : IsDigit(name[i])
    /\ name[5] = "-" /\ name[8] = "-"

\* C6: the filename is kept when it is at least 10 characters
\* long, begins with four digits and has "-" at positions 4 and 7, else it
\* gets the frontmatter's date and "_" in front when there is a date.
C6_FourDigitYear ==
    cmd = "link-now-posts" =>
        \A i \in 1..Len(ret) : ret[i].name = RuleName(fs0, ret[i].post, LooksLikeYearMonthDay)

\* The notes the walk meets for which has_now_tag is true.
NowNotes(f) ==
    IF Exists(f, NotesDir) THEN {p \in MdFiles(f, NotesDir) : HasNowTag(f, p).val} ELSE {}

\* C10: after a run on an empty target directory every now-tagged note is
\* what some symlink of the target directory resolves to, and the symlinks
\* there are as many as the run reports.
C10_EveryNowNoteLinked ==
    /\ Len(runs) = 1
    /\ {p \in DOMAIN fs0 : IsPrefix(NowTargetDir, p) /\ p # NowTargetDir} = {}
    => /\ \A p \in NowNotes(fs0) :
             \E l \in LinksUnder(fs, NowTargetDir) : l[2] = RealPath(fs0, p)
       /\ Cardinality(LinksUnder(fs, NowTargetDir)) = runs[1].linked

====
